---- MODULE Spec2Model ----
(***************************************************************************)
(* Model registry and artifact lifecycle of h2o-powerbi-automl.            *)
(*                                                                         *)
(* Two registry implementations share the directory mlops/modelos:         *)
(*   "mlops"   : src/src/mlops/mlops.py          (MLOpsManager)            *)
(*   "manager" : src/src/mlops/mlops_manager.py  (MLOpsManager) together   *)
(*               with src/src/modelos/h2o_modelo.py (ModeloH2O)            *)
(* and the checksum-gated fetcher is src/src/modelo_manager_ia.py.         *)
(*                                                                         *)
(* Five specifications over the same variables:                            *)
(*   Spec      : one client issuing whole registry calls, the clock        *)
(*               advancing between calls, I/O faults injected into a call  *)
(*   SpecConc  : two clients whose registrar_modelo calls interleave at    *)
(*               the granularity of file-system operations, with crashes   *)
(*   SpecFetch : the fetcher, one file-system operation per step           *)
(*   SpecDrift : the difference computation of detectar_drift on drawn     *)
(*               reference and new distributions                           *)
(*   SpecLog   : src/src/logger.py, Logger objects and their log calls     *)
(***************************************************************************)
EXTENDS Integers, Sequences, FiniteSets, TLC

VARIABLES
    now,         \* the wall clock, in ticks (datetime.now())
    dirs,        \* directories that exist under mlops/modelos
    files,       \* files under mlops/modelos: path -> content
    metricas,    \* files under mlops/metricas: name -> content
    last,        \* the last completed call and its outcome (observer)
    issued,      \* ids handed out by _generar_modelo_id so far (observer)
    registered,  \* ids a registrar_modelo call returned so far (observer)
    ncalls,      \* writing calls made so far (observer)
    appended,    \* snapshots handed to guardar_metricas so far (observer)
    pc,          \* SpecConc: position of each client inside registrar_modelo
    loc,         \* SpecConc: locals of each client's call
    conc,        \* SpecConc: clients whose call overlapped this client's call
    modelo_base, \* fetcher: the selected asset
    model_file,  \* fetcher: content at the canonical path, or Absent
    fpc,         \* fetcher: position inside verificar_modelo
    fcall,       \* fetcher: the public call in progress
    fres,        \* fetcher: outcome of the call
    descargas,   \* fetcher: descargar_modelo runs of the call in progress
    stream,      \* fetcher: chunks the response still has to deliver
    previo,      \* fetcher: the file at the canonical path when the call began (observer)
    distribucion_original, \* drift: the reference distribution of the metadata
    distribucion_actual,   \* drift: datos_nuevos.describe().to_dict()
    diferencias, \* drift: what detectar_drift computed, or NoCalculado
    logs_dir,    \* logger: whether the directory logs exists
    log_files,   \* logger: files under logs: name -> lines written
    handlers,    \* logger: file handlers added to the loggers of the logging module
    loggers,     \* logger: the Logger objects constructed so far
    logged,      \* logger: the calls of info/warning/error/debug so far (observer)
    ej_dirs,       \* exercises: ids whose directory tree exists under ejercicios
    ej_metadata,   \* exercises: id -> content of ejercicios/<id>/metadata.json
    ej_modelos,    \* exercises: blob files under ejercicios/<id>/modelos
    ej_resultados, \* exercises: result files under ejercicios/<id>/<tipo>
    epc,           \* exercises: position of each client inside its call
    eloc,          \* exercises: locals of each client's call
    ecalls,        \* exercises: calls begun so far (observer)
    guardados,     \* exercises: what the calls that returned saved (observer)
    recreados,     \* exercises: ids crear_ejercicio_automl issued again (observer)
    modelo_h2o     \* ModeloH2O: the fields of one instance

regVars   == <<now, dirs, files, metricas, last, issued, registered, ncalls, appended>>
concVars  == <<pc, loc, conc>>
fetchVars == <<modelo_base, model_file, fpc, fcall, fres, descargas, stream, previo>>
driftVars == <<distribucion_original, distribucion_actual, diferencias>>
logVars   == <<logs_dir, log_files, handlers, loggers, logged>>
ejVars    == <<ej_dirs, ej_metadata, ej_modelos, ej_resultados, epc, eloc, ecalls,
               guardados, recreados>>
h2oVars   == <<modelo_h2o>>
otrosVars == <<ejVars, h2oVars>>
extVars   == <<driftVars, logVars, otrosVars>>
vars      == <<regVars, concVars, fetchVars, extVars>>

(***************************************************************************)
(* Bounds of the model.                                                    *)
(***************************************************************************)
MaxNow         == 2   \* the clock stops advancing at this tick
TicksPerSecond == 2   \* clock ticks per second of strftime("%Y%m%d_%H%M%S")
MaxCalls       == 3   \* writing calls (registrar_modelo, guardar_metricas) per behaviour
MaxChunks      == 2   \* chunks of a download
MaxStat        == 1   \* largest mean and standard deviation of a feature
MaxLoggers     == 2   \* Logger objects constructed per behaviour
MaxLogs        == 2   \* calls of info, warning, error and debug per behaviour
SecondsPerDay  == 2   \* seconds per day of strftime("%Y%m%d")
SecondsPerMinute == 1 \* seconds per minute of strftime("%Y%m%d_%H%M")

(***************************************************************************)
(* Program tables.                                                         *)
(***************************************************************************)
TIPOS_MODELOS ==
    {"h2o_automl", "h2o_gbm", "h2o_glm", "h2o_rf", "h2o_xgboost",
     "h2o_deeplearning", "sklearn_rf", "sklearn_xgboost", "sklearn_lightgbm",
     "pytorch", "tensorflow", "custom"}

TIPOS_PROBLEMAS ==
    {"clasificacion_binaria", "clasificacion_multiclase", "regresion",
     "series_temporales", "clustering", "nlp", "vision"}

(***************************************************************************)
(* Inputs.  A model object carries the H2O key under which h2o.save_model  *)
(* names the blob file, the bytes of the blob, the wrapper's fields        *)
(* (nombre, tipo, metricas, esta_entrenado) and whether the object has a   *)
(* save_model attribute.                                                   *)
(***************************************************************************)
Modelos ==
    { [nombre |-> "gbm", tipo |-> "regresion", key |-> "k1", data |-> 1,
       metricas |-> 12, esta_entrenado |-> TRUE,  save_model |-> TRUE],
      [nombre |-> "gbm", tipo |-> "h2o",       key |-> "k1", data |-> 2,
       metricas |-> 7,  esta_entrenado |-> TRUE,  save_model |-> TRUE],
      [nombre |-> "gbm", tipo |-> "regresion", key |-> "k1", data |-> 0,
       metricas |-> 0,  esta_entrenado |-> FALSE, save_model |-> FALSE] }

NoModelo ==
    [nombre |-> "", tipo |-> "", key |-> "", data |-> 0,
     metricas |-> 0, esta_entrenado |-> FALSE, save_model |-> FALSE]

\* metadata argument of mlops.registrar_modelo
Metadatas ==
    { [tipo_modelo |-> "h2o_gbm", tipo_problema |-> "ranking",
       dataset |-> "sales", version |-> "v1"] }

Datasets  == {"sales"}
Versiones == {"1"}
Impls     == {"mlops", "manager"}
Faults    == {"none", "save", "meta_dump", "metricas_dump"}
MetricasValues == {1}

(***************************************************************************)
(* Clock and identifiers.                                                  *)
(***************************************************************************)
\* datetime.now().strftime("%Y%m%d_%H%M%S"): the clock truncated to seconds
Timestamp(t) == t \div TicksPerSecond

\* mlops.py: f"modelo_{tipo_modelo}_{tipo_problema}_{dataset}_{version}_{timestamp}"
GenerarModeloIdMlops(tipo_modelo, tipo_problema, dataset, version, t) ==
    [fmt |-> "mlops", tipo |-> tipo_modelo, problema |-> tipo_problema,
     dataset |-> dataset, version |-> version, ts |-> Timestamp(t)]

\* mlops_manager.py: f"modelo_{nombre}_{dataset}_v{version}_{timestamp}"
GenerarModeloIdManager(nombre, dataset, version, t) ==
    [fmt |-> "manager", tipo |-> nombre, problema |-> "",
     dataset |-> dataset, version |-> version, ts |-> Timestamp(t)]

\* mlops.py: f"metricas_{modelo_id}_eval_{timestamp}"
GenerarMetricasId(modelo_id, t) ==
    [id |-> modelo_id, kind |-> "eval", ts |-> Timestamp(t)]

NoId ==
    [fmt |-> "", tipo |-> "", problema |-> "", dataset |-> "",
     version |-> "", ts |-> 0]

\* an id no registration ever produced
UnknownId ==
    [fmt |-> "mlops", tipo |-> "custom", problema |-> "nlp", dataset |-> "none",
     version |-> "v0", ts |-> 0]

(***************************************************************************)
(* File system.  A path under mlops/modelos is [id, sub, name]: sub is ""  *)
(* for the artifact directory itself and "modelo" for its subdirectory.    *)
(* A content is Partial (a file that was created or truncated and not yet  *)
(* completely written) or a complete document.                             *)
(***************************************************************************)
Path(id, sub, name) == [id |-> id, sub |-> sub, name |-> name]
Dir(id, sub)        == [id |-> id, sub |-> sub]

Partial == [k |-> "partial"]
Blob(m) == [k |-> "blob", key |-> m.key, data |-> m.data]

\* os.makedirs(path, exist_ok=True): the directory and its parents
Makedirs(ds, id, sub) == ds \cup {Dir(id, ""), Dir(id, sub)}

\* open(path, 'w'): the file exists and is empty
OpenW(fs, p) == (p :> Partial) @@ fs

\* json.dump(...) followed by the close of the with-block
DumpClose(fs, p, c) == (p :> c) @@ fs

Exists(fs, p) == p \in DOMAIN fs

(***************************************************************************)
(* registrar_modelo, one file-system operation per step.  A call c is      *)
(* [impl, modelo, md, dataset, version, id, fault]; st is the store        *)
(* [dirs, files, metricas]; t is the clock when the step runs.  Step gives *)
(* the store after the step, the next position and, once the call has      *)
(* ended (pc = "done"), its outcome.  fault names the operation of this    *)
(* call that the environment makes fail.                                   *)
(***************************************************************************)
Store(ds, fs, ms) == [dirs |-> ds, files |-> fs, metricas |-> ms]

Goto(c, st, label)   == [c |-> c, st |-> st, pc |-> label,  status |-> ""]
Raise(c, st, error)  == [c |-> c, st |-> st, pc |-> "done", status |-> error]
Return(c, st)        == [c |-> c, st |-> st, pc |-> "done", status |-> "ok"]

\* ModeloBase.generar_metadata plus metadata['ruta_modelo'] (ModeloH2O.guardar)
MetadataManager(m, ruta_modelo) ==
    [k |-> "metadata", nombre |-> m.nombre, tipo |-> m.tipo,
     esta_entrenado |-> m.esta_entrenado, metricas |-> m.metricas,
     ruta_modelo |-> ruta_modelo]

\* metadata_completa of mlops.registrar_modelo
MetadataCompleta(c, ruta_modelo) ==
    [k |-> "metadata_completa", modelo_id |-> c.id, dataset |-> c.id.dataset,
     version |-> c.id.version, ruta_modelo |-> ruta_modelo,
     metadata_adicional |-> c.md]

\* the metadata file each implementation writes
MetadataNameManager == "metadata.json"
MetadataNameMlops   == "{modelo_id}_metadata.json"

\* metricas_{modelo_id}.json of mlops_manager._registrar_metricas
MetricasNameManager(id) == [id |-> id, kind |-> "", ts |-> -1]

\* mlops.registrar_modelo: validation of the metadata and the id
StartMlops(c, st, t) ==
    LET tipo_modelo   == IF c.md.tipo_modelo \in TIPOS_MODELOS
                         THEN c.md.tipo_modelo ELSE "custom"
        tipo_problema == IF c.md.tipo_problema \in TIPOS_PROBLEMAS
                         THEN c.md.tipo_problema ELSE "clasificacion_binaria"
        id == GenerarModeloIdMlops(tipo_modelo, tipo_problema,
                                   c.md.dataset, c.md.version, t)
    IN  Goto([c EXCEPT !.id = id], st, "makedirs")

\* mlops_manager.registrar_modelo: the trained-state gate and the id
StartManager(c, st, t) ==
    IF ~c.modelo.esta_entrenado
    THEN Raise(c, st, "ValueError")
    ELSE Goto([c EXCEPT !.id = GenerarModeloIdManager(c.modelo.nombre,
                                      c.dataset, c.version, t)],
              st, "makedirs")

\* where h2o.save_model(modelo, path=..., force=True) puts the blob
RutaModelo(c) ==
    Path(c.id, IF c.impl = "mlops" THEN "modelo" ELSE "", c.modelo.key)

RutaMetadata(c) ==
    Path(c.id, "", IF c.impl = "mlops" THEN MetadataNameMlops
                                         ELSE MetadataNameManager)

\* the metadata written with no blob saved before it
StepMakedirsSinBlob(c, st) ==
    Goto(c, [st EXCEPT !.dirs = Makedirs(st.dirs, c.id,
                            IF c.impl = "mlops" THEN "modelo" ELSE "")],
         "meta_open")

StepMakedirs(c, st) ==
    Goto(c, [st EXCEPT !.dirs = Makedirs(st.dirs, c.id,
                            IF c.impl = "mlops" THEN "modelo" ELSE "")],
         "save_begin")

\* h2o.save_model starts: the blob file exists under its final name
StepSaveBegin(c, st) ==
    IF c.impl = "mlops" /\ ~c.modelo.save_model
    THEN Raise(c, st, "ValueError")
    ELSE IF c.fault = "save"
    THEN Raise(c, st, "H2OError")
    ELSE Goto(c, [st EXCEPT !.files = OpenW(st.files, RutaModelo(c))],
              "save_end")

\* h2o.save_model returns: the blob is complete
StepSaveEnd(c, st) ==
    Goto(c, [st EXCEPT !.files = DumpClose(st.files, RutaModelo(c),
                                            Blob(c.modelo))],
         "meta_open")

StepMetaOpen(c, st) ==
    Goto(c, [st EXCEPT !.files = OpenW(st.files, RutaMetadata(c))], "meta_dump")

StepMetaDump(c, st) ==
    IF c.fault = "meta_dump"
    THEN Raise(c, st, "TypeError")
    ELSE LET doc == IF c.impl = "mlops"
                    THEN MetadataCompleta(c, RutaModelo(c))
                    ELSE MetadataManager(c.modelo, RutaModelo(c))
             st2 == [st EXCEPT !.files = DumpClose(st.files, RutaMetadata(c), doc)]
         IN  IF c.impl = "mlops" THEN Return(c, st2)
                                 ELSE Goto(c, st2, "metricas_open")

\* mlops_manager._registrar_metricas
StepMetricasOpen(c, st) ==
    Goto(c, [st EXCEPT !.metricas = OpenW(st.metricas, MetricasNameManager(c.id))],
         "metricas_dump")

StepMetricasDump(c, st) ==
    IF c.fault = "metricas_dump"
    THEN Raise(c, st, "TypeError")
    ELSE Return(c, [st EXCEPT !.metricas =
                       DumpClose(st.metricas, MetricasNameManager(c.id),
                                 [k |-> "metricas", v |-> c.modelo.metricas])])

Step(c, label, st, t) ==
    CASE label = "start"         -> IF c.impl = "mlops" THEN StartMlops(c, st, t)
                                                        ELSE StartManager(c, st, t)
      [] label = "makedirs"      -> StepMakedirs(c, st)
      [] label = "save_begin"    -> StepSaveBegin(c, st)
      [] label = "save_end"      -> StepSaveEnd(c, st)
      [] label = "meta_open"     -> StepMetaOpen(c, st)
      [] label = "meta_dump"     -> StepMetaDump(c, st)
      [] label = "metricas_open" -> StepMetricasOpen(c, st)
      [] label = "metricas_dump" -> StepMetricasDump(c, st)

\* the whole call: its steps one after the other, nothing in between
RECURSIVE RunCall(_, _, _, _)
RunCall(c, label, st, t) ==
    LET r == Step(c, label, st, t)
    IN  IF r.pc = "done" THEN r ELSE RunCall(r.c, r.pc, r.st, t)

Call(impl, m, md, dataset, version, fault) ==
    [impl |-> impl, modelo |-> m, md |-> md, dataset |-> dataset,
     version |-> version, id |-> NoId, fault |-> fault]

(***************************************************************************)
(* cargar_modelo.  The outcome is [status, blob, metadata]; blob and       *)
(* metadata are Partial when the call raised.                              *)
(***************************************************************************)
Failed(error)      == [status |-> error, blob |-> Partial, metadata |-> Partial]
Loaded(blob, meta) == [status |-> "ok", blob |-> blob, metadata |-> meta]

\* h2o.load_model(ruta): the blob file must be there and complete
H2OLoadable(st, ruta) == Exists(st.files, ruta) /\ st.files[ruta] # Partial

\* ModeloH2O.cargar
CargarH2O(st, id) ==
    LET ruta_metadata == Path(id, "", "metadata.json") IN
    IF Dir(id, "") \notin st.dirs THEN Failed("FileNotFoundError")
    ELSE IF ~Exists(st.files, ruta_metadata) THEN Failed("FileNotFoundError")
    ELSE IF st.files[ruta_metadata] = Partial THEN Failed("JSONDecodeError")
    ELSE LET metadata == st.files[ruta_metadata] IN
         IF ~H2OLoadable(st, metadata.ruta_modelo) THEN Failed("H2OError")
         ELSE IF metadata.k # "metadata" THEN Failed("KeyError")
         ELSE Loaded(st.files[metadata.ruta_modelo], metadata)

\* mlops_manager.cargar_modelo
CargarModeloManager(st, id) ==
    LET ruta_metadata == Path(id, "", "metadata.json") IN
    IF Dir(id, "") \notin st.dirs THEN Failed("FileNotFoundError")
    ELSE IF ~Exists(st.files, ruta_metadata) THEN Failed("FileNotFoundError")
    ELSE IF st.files[ruta_metadata] = Partial THEN Failed("JSONDecodeError")
    ELSE LET metadata == st.files[ruta_metadata] IN
         IF metadata.k # "metadata" THEN Failed("KeyError")
         ELSE IF metadata.tipo \notin {"clasificacion", "regresion"}
         THEN Failed("ValueError")
         ELSE CargarH2O(st, id)

\* mlops.cargar_modelo
CargarModeloMlops(st, id) ==
    LET ruta_metadata == Path(id, "", "metadata.json") IN
    IF Dir(id, "") \notin st.dirs THEN Failed("FileNotFoundError")
    ELSE IF ~Exists(st.files, ruta_metadata) THEN Failed("FileNotFoundError")
    ELSE IF st.files[ruta_metadata] = Partial THEN Failed("JSONDecodeError")
    ELSE LET metadata    == st.files[ruta_metadata]
             tipo_modelo == IF metadata.k = "metadata" THEN metadata.tipo ELSE "h2o"
         IN  IF tipo_modelo = "h2o"
             THEN IF ~Exists(st.files, metadata.ruta_modelo)
                  THEN Failed("FileNotFoundError")
                  ELSE IF st.files[metadata.ruta_modelo] = Partial
                  THEN Failed("H2OError")
                  ELSE Loaded(st.files[metadata.ruta_modelo], metadata)
             ELSE IF tipo_modelo = "ia" THEN Failed("ia")
             ELSE Failed("UnboundLocalError")

\* a loader that reports a metadata file that does not parse as not found
CargarModeloUnError(impl, st, id) ==
    LET r == IF impl = "mlops" THEN CargarModeloMlops(st, id)
                               ELSE CargarModeloManager(st, id)
    IN  IF r.status = "JSONDecodeError" THEN Failed("FileNotFoundError") ELSE r

CargarModelo(impl, st, id) ==
    IF impl = "mlops" THEN CargarModeloMlops(st, id) ELSE CargarModeloManager(st, id)

(***************************************************************************)
(* listar_modelos (mlops_manager.py).  The outcome is [status, modelos];   *)
(* modelos is the list of metadata records, each with its id.              *)
(***************************************************************************)
\* the entries of mlops/modelos: one directory per id
ModeloIds(st) == {d.id : d \in st.dirs}

\* the directories of `orden` that hold a metadata.json
ConMetadata(st, orden) ==
    SelectSeq(orden, LAMBDA id : Exists(st.files, Path(id, "", "metadata.json")))

\* listar_modelos with the directory listed in the order `orden`
ListarModelos(st, orden) ==
    LET ids == ConMetadata(st, orden) IN
    IF \E i \in 1..Len(ids) : st.files[Path(ids[i], "", "metadata.json")] = Partial
    THEN [status |-> "JSONDecodeError", modelos |-> <<>>]
    ELSE [status |-> "ok",
          modelos |-> [i \in 1..Len(ids) |->
                         [id |-> ids[i],
                          metadata |-> st.files[Path(ids[i], "", "metadata.json")]]]]

(***************************************************************************)
(* guardar_metricas and obtener_metricas_modelo (mlops.py).                *)
(***************************************************************************)
DatosMetricas(modelo_id, metricas_id, t, v) ==
    [k |-> "datos_metricas", modelo_id |-> modelo_id, metricas_id |-> metricas_id,
     fecha_evaluacion |-> t, metricas |-> v]

\* the write of guardar_metricas: open(ruta_metricas, 'w') and json.dump
GuardarMetricasWrite(ms, modelo_id, v, t) ==
    LET metricas_id == GenerarMetricasId(modelo_id, t)
    IN  DumpClose(OpenW(ms, metricas_id), metricas_id,
                  DatosMetricas(modelo_id, metricas_id, t, v))

\* the call ends in self.logger.info(...): MLOpsManager has no attribute logger
GuardarMetricasStatus == "AttributeError"

\* every order in which the entries `names` can come
RECURSIVE Orders(_)
Orders(names) ==
    IF names = {} THEN {<<>>}
    ELSE UNION { {<<n>> \o o : o \in Orders(names \ {n})} : n \in names }

\* os.listdir(metricas_dir): the directory's entries, in arbitrary order
Listdir(ms) == Orders(DOMAIN ms)

\* archivo.startswith(f"metricas_{modelo_id}")
StartsWithMetricas(name, modelo_id) == name.id = modelo_id

\* obtener_metricas_modelo with the directory listed in the order `orden`
ObtenerMetricasModelo(ms, modelo_id, orden) ==
    LET leidas == SelectSeq(orden, LAMBDA name : StartsWithMetricas(name, modelo_id))
    IN  IF \E i \in 1..Len(leidas) : ms[leidas[i]] = Partial
        THEN <<>>
        ELSE [i \in 1..Len(leidas) |-> ms[leidas[i]]]

(***************************************************************************)
(* monitorear_modelo (mlops.py).  The outcome is [status, metricas]:       *)
(* metricas is the metrics directory after the call.                       *)
(***************************************************************************)
\* f"metricas_{modelo_id}_{timestamp}.json"
MetricasNameMonitoreo(modelo_id, t) ==
    [id |-> modelo_id, kind |-> "", ts |-> Timestamp(t)]

\* the dict monitorear_modelo dumps
MetricasMonitoreo(modelo_id, tipo_modelo, t) ==
    [k |-> "monitoreo", modelo_id |-> modelo_id, tipo_modelo |-> tipo_modelo,
     timestamp |-> Timestamp(t)]

MonitorearModelo(st, modelo_id, t) ==
    LET ruta_metadata == Path(modelo_id, "", "metadata.json") IN
    IF ~Exists(st.files, ruta_metadata)
    THEN [status |-> "FileNotFoundError", metricas |-> st.metricas]
    ELSE IF st.files[ruta_metadata] = Partial
    THEN [status |-> "JSONDecodeError", metricas |-> st.metricas]
    ELSE LET metadata    == st.files[ruta_metadata]
             tipo_modelo == IF metadata.k = "metadata" THEN metadata.tipo ELSE "h2o"
             modelo      == CargarModeloMlops(st, modelo_id)
             ruta        == MetricasNameMonitoreo(modelo_id, t)
         IN  IF modelo.status # "ok"
             THEN [status |-> modelo.status, metricas |-> st.metricas]
             ELSE [status |-> "ok",
                   metricas |-> DumpClose(OpenW(st.metricas, ruta), ruta,
                                    MetricasMonitoreo(modelo_id, tipo_modelo, t))]

\* obtener_metricas_modelo returns a DataFrame on every path, the except
\* clause included
ObtenerMetricasModeloStatus == "ok"

(***************************************************************************)
(* detectar_drift (mlops.py).  A distribution maps each numeric feature to *)
(* the mean and std of describe(); the result maps features to the         *)
(* absolute differences.                                                   *)
(***************************************************************************)
Features == {"price", "qty"}

Stats == [mean : 0..MaxStat, std : 0..MaxStat]

\* describe().to_dict() of a data set, for every set of numeric columns
Distribuciones == UNION {[F -> Stats] : F \in SUBSET Features}

AbsSinSigno(x) == x

Abs(x) == IF x < 0 THEN -x ELSE x

\* the loop over distribucion_original.keys()
CalcularDiferencias(original, actual) ==
    [feature \in {f \in DOMAIN original : f \in DOMAIN actual} |->
        [diff_mean |-> Abs(original[feature].mean - actual[feature].mean),
         diff_std  |-> Abs(original[feature].std - actual[feature].std)]]

\* diferencias of a call whose try-block raised: return {}
SinDiferencias == [f \in {} |-> [diff_mean |-> 0, diff_std |-> 0]]

\* detectar_drift: the outcome is [status, diferencias]; every exception
\* (no metadata.json, a metadata.json that does not parse, no key
\* 'distribucion_features') is logged and {} is returned
DetectarDrift(st, modelo_id, actual) ==
    LET ruta_metadata == Path(modelo_id, "", "metadata.json") IN
    IF ~Exists(st.files, ruta_metadata)
    THEN [status |-> "ok", diferencias |-> SinDiferencias]
    ELSE IF st.files[ruta_metadata] = Partial
    THEN [status |-> "ok", diferencias |-> SinDiferencias]
    ELSE IF "distribucion_features" \notin DOMAIN st.files[ruta_metadata]
    THEN [status |-> "ok", diferencias |-> SinDiferencias]
    ELSE [status |-> "ok",
          diferencias |-> CalcularDiferencias(
                              st.files[ruta_metadata].distribucion_features, actual)]

(***************************************************************************)
(* ModeloManager (modelo_manager.py): exercises.  An exercise id is        *)
(* [nombre, ts], the name and the minute of its creation.  est is the      *)
(* store under ejercicios: [dirs, metadata, modelos, resultados].  A call  *)
(* c is [op, nombre_ejercicio, ej, nombre, modelo, tipo, archivo,          *)
(* metadata]; metadata is the dict the call holds in memory.               *)
(***************************************************************************)
NombresEjercicio == {"churn"}
NombresModelo    == {"m1", "m2"}
TiposResultados  == {"metricas", "interpretabilidad"}

\* strftime("%Y%m%d_%H%M")
Minuto(t) == Timestamp(t) \div SecondsPerMinute

\* ejercicio_id = f"{nombre_ejercicio}_{timestamp}"
EjercicioId(nombre_ejercicio, t) == [nombre |-> nombre_ejercicio, ts |-> Minuto(t)]

\* an ejercicio_id crear_ejercicio_automl never returned
EjercicioDesconocido == [nombre |-> "none", ts |-> 0]

\* nombre_archivo = f"{tipo}_{timestamp}.json"
NombreArchivo(tipo, t) == [tipo |-> tipo, ts |-> Minuto(t)]

NoArchivo == [tipo |-> "", ts |-> -1]

\* ruta_modelo of guardar_modelo, and the file h2o.save_model puts under it
RutaModeloEjercicio(ej, nombre) == [ej |-> ej, nombre |-> nombre]

ArchivoModelo(ej, nombre, m) == [ej |-> ej, nombre |-> nombre, key |-> m.key]

\* os.path.join(ruta, nombre_archivo) of guardar_resultados
RutaResultados(ej, archivo) == [ej |-> ej, archivo |-> archivo]

\* the keys of the metadata dict whose value is a dict
ClavesDict == {"metricas", "configuracion"}

\* the metadata dict of crear_ejercicio_automl; listas holds the keys that
\* guardar_resultados adds, each with its list of file names
MetadataEjercicio(ej) ==
    [k |-> "ejercicio", id |-> ej, estado |-> "creado", modelos |-> <<>>,
     listas |-> [tipo \in {} |-> <<>>]]

EjStore(ds, md, ms, rs) ==
    [dirs |-> ds, metadata |-> md, modelos |-> ms, resultados |-> rs]

NoLlamada ==
    [op |-> "none", nombre_ejercicio |-> "", ej |-> EjercicioDesconocido,
     nombre |-> "", modelo |-> NoModelo, tipo |-> "", archivo |-> NoArchivo,
     metadata |-> Partial]

\* the timestamp each call reads before its first write
EjStart(c, est, t) ==
    CASE c.op = "crear_ejercicio_automl" ->
             Goto([c EXCEPT !.ej = EjercicioId(c.nombre_ejercicio, t)],
                  est, "makedirs")
      [] c.op = "guardar_modelo" -> Goto(c, est, "save_begin")
      [] c.op = "guardar_resultados" ->
             Goto([c EXCEPT !.archivo = NombreArchivo(c.tipo, t)], est, "res_open")

\* crear_ejercicio_automl: the six subdirectories, then the new metadata dict
EjMakedirs(c, est) ==
    Goto([c EXCEPT !.metadata = MetadataEjercicio(c.ej)],
         [est EXCEPT !.dirs = est.dirs \cup {c.ej}], "meta_open")

\* h2o.save_model(modelo, ruta_modelo) starts; force is False, so a file that
\* is already there makes it fail
EjSaveBegin(c, est) ==
    LET f == ArchivoModelo(c.ej, c.nombre, c.modelo) IN
    IF Exists(est.modelos, f)
    THEN Raise(c, est, "H2OError")
    ELSE Goto(c, [est EXCEPT !.modelos = OpenW(est.modelos, f)], "save_end")

\* h2o.save_model returns: the blob is complete
EjSaveEnd(c, est) ==
    Goto(c, [est EXCEPT !.modelos =
                 DumpClose(est.modelos, ArchivoModelo(c.ej, c.nombre, c.modelo),
                           Blob(c.modelo))],
         "meta_load")

\* guardar_resultados: open(os.path.join(ruta, nombre_archivo), 'w')
EjResOpen(c, est) ==
    IF c.ej \notin est.dirs
    THEN Raise(c, est, "FileNotFoundError")
    ELSE Goto(c, [est EXCEPT !.resultados =
                      OpenW(est.resultados, RutaResultados(c.ej, c.archivo))],
              "res_dump")

EjResDump(c, est) ==
    Goto(c, [est EXCEPT !.resultados =
                 DumpClose(est.resultados, RutaResultados(c.ej, c.archivo),
                           [k |-> "resultados"])],
         "meta_load")

\* _cargar_metadata and the append to the dict in memory
EjMetaLoad(c, est) ==
    IF ~Exists(est.metadata, c.ej)
    THEN Raise(c, est, "FileNotFoundError")
    ELSE IF est.metadata[c.ej] = Partial
    THEN Raise(c, est, "JSONDecodeError")
    ELSE LET md == est.metadata[c.ej] IN
         IF c.op = "guardar_modelo"
         THEN Goto([c EXCEPT !.metadata =
                       [md EXCEPT !.modelos =
                           Append(@, [nombre |-> c.nombre,
                                      ruta |-> RutaModeloEjercicio(c.ej, c.nombre)])]],
                   est, "meta_open")
         ELSE IF c.tipo \in ClavesDict
         THEN Raise(c, est, "AttributeError")
         ELSE LET lista == IF c.tipo \in DOMAIN md.listas
                           THEN md.listas[c.tipo] ELSE <<>>
              IN  Goto([c EXCEPT !.metadata =
                           [md EXCEPT !.listas =
                               (c.tipo :> Append(lista, c.archivo)) @@ @]],
                       est, "meta_open")

\* _guardar_metadata: open(ruta, 'w'), then json.dump and the close
EjMetaOpen(c, est) ==
    Goto(c, [est EXCEPT !.metadata = OpenW(est.metadata, c.ej)], "meta_dump")

EjMetaDump(c, est) ==
    Return(c, [est EXCEPT !.metadata = DumpClose(est.metadata, c.ej, c.metadata)])

EjStep(c, label, est, t) ==
    CASE label = "start"      -> EjStart(c, est, t)
      [] label = "makedirs"   -> EjMakedirs(c, est)
      [] label = "save_begin" -> EjSaveBegin(c, est)
      [] label = "save_end"   -> EjSaveEnd(c, est)
      [] label = "res_open"   -> EjResOpen(c, est)
      [] label = "res_dump"   -> EjResDump(c, est)
      [] label = "meta_load"  -> EjMetaLoad(c, est)
      [] label = "meta_open"  -> EjMetaOpen(c, est)
      [] label = "meta_dump"  -> EjMetaDump(c, est)

(***************************************************************************)
(* ModeloH2O (h2o_modelo.py).  An instance o has the fields of a model     *)
(* object: key and data are those of self.modelo (data 0: None).  Each     *)
(* operator gives the instance after the call and the call's outcome.      *)
(***************************************************************************)
ResultadosEntrenar == {"ok", "ValueError", "H2OError", "metricas"}

\* a directory of the caller's own, passed to guardar and cargar
RutaDirecta == [UnknownId EXCEPT !.dataset = "ruta"]

\* esta_entrenado set as soon as self.modelo is
EntrenarBanderaAntes(o, m, resultado) ==
    CASE resultado = "ok" ->
             [o |-> [o EXCEPT !.key = m.key, !.data = m.data,
                              !.metricas = m.metricas, !.esta_entrenado = TRUE],
              status |-> "ok"]
      [] resultado = "metricas" ->
             [o |-> [o EXCEPT !.key = m.key, !.data = m.data,
                              !.esta_entrenado = TRUE],
              status |-> "H2OError"]
      [] OTHER -> [o |-> o, status |-> resultado]

\* entrenar: m is aml.leader with the metrics of the test frame; resultado
\* says where the call raises: validar_datos false ("ValueError"), in
\* H2OFrame, split_frame or aml.train ("H2OError"), or in
\* _obtener_metricas_h2o after self.modelo was assigned ("metricas")
Entrenar(o, m, resultado) ==
    CASE resultado = "ok" ->
             [o |-> [o EXCEPT !.key = m.key, !.data = m.data,
                              !.metricas = m.metricas, !.esta_entrenado = TRUE],
              status |-> "ok"]
      [] resultado = "metricas" ->
             [o |-> [o EXCEPT !.key = m.key, !.data = m.data],
              status |-> "H2OError"]
      [] OTHER -> [o |-> o, status |-> resultado]

\* predecir: the gate, then validar_datos
Predecir(o, valido) ==
    IF ~o.esta_entrenado THEN "ValueError"
    ELSE IF ~valido THEN "ValueError"
    ELSE "ok"

\* evaluar: the gate, then _obtener_metricas_h2o, which may raise
Evaluar(o, falla) ==
    IF ~o.esta_entrenado THEN "ValueError"
    ELSE IF falla THEN "H2OError"
    ELSE "ok"

\* guardar(ruta): the gate, then makedirs, h2o.save_model and metadata.json
RECURSIVE RunGuardar(_, _, _, _)
RunGuardar(c, label, st, t) ==
    IF label = "metricas_open"
    THEN Return(c, st)
    ELSE LET r == Step(c, label, st, t)
         IN  IF r.pc = "done" THEN r ELSE RunGuardar(r.c, r.pc, r.st, t)

Guardar(o, st, id, t) ==
    LET c == [Call("manager", o, [none |-> TRUE], "", "", "none") EXCEPT !.id = id]
    IN  IF ~o.esta_entrenado
        THEN Raise(c, st, "ValueError")
        ELSE RunGuardar(c, "makedirs", st, t)

\* cargar(ruta)
Cargar(o, st, id) ==
    LET r == CargarH2O(st, id) IN
    IF r.status = "ok"
    THEN [o |-> [o EXCEPT !.key = r.blob.key, !.data = r.blob.data,
                          !.metricas = r.metadata.metricas,
                          !.esta_entrenado = TRUE],
          status |-> "ok"]
    ELSE [o |-> o, status |-> r.status]

(***************************************************************************)
(* State after construction: MLOpsManager.__init__ created the empty       *)
(* directories mlops/modelos and mlops/metricas; ModeloManagerIA.__init__  *)
(* fixed the canonical path of the selected asset.                         *)
(***************************************************************************)
Procs  == {1, 2}

\* the canonical path holds no file
Absent == [exists |-> FALSE, bytes |-> <<>>]

EmptyFiles == [p \in {} |-> Partial]
EmptyStore == Store({}, EmptyFiles, EmptyFiles)

StoreNow == Store(dirs, files, metricas)

NoCall ==
    [op |-> "none", impl |-> "", id |-> NoId, modelo |-> NoModelo,
     status |-> "", fresh |-> TRUE, dup |-> FALSE]

InitRegistry ==
    /\ now = 0
    /\ dirs = {}
    /\ files = EmptyFiles
    /\ metricas = EmptyFiles
    /\ last = NoCall
    /\ issued = {}
    /\ registered = {}
    /\ ncalls = 0
    /\ appended = <<>>

InitProcs ==
    /\ pc = [p \in Procs |-> "idle"]
    /\ loc = [p \in Procs |->
                [c |-> Call("", NoModelo, [none |-> TRUE], "", "", "none"),
                 status |-> "", fresh |-> TRUE]]
    /\ conc = [p \in Procs |-> {}]

InitFetcherIdle ==
    /\ modelo_base = "orca-mini"
    /\ model_file = Absent
    /\ fpc = "idle"
    /\ fcall = ""
    /\ fres = ""
    /\ descargas = 0
    /\ stream = <<>>
    /\ previo = model_file

\* nothing computed by detectar_drift yet
NoCalculado == [k |-> "none"]

NoFeatures == [f \in {} |-> [mean |-> 0, std |-> 0]]

InitDriftIdle ==
    /\ distribucion_original = NoFeatures
    /\ distribucion_actual = NoFeatures
    /\ diferencias = NoCalculado

\* no Logger constructed yet: no directory logs, no handler on any name
InitLogIdle ==
    /\ logs_dir = FALSE
    /\ log_files = [f \in {} |-> <<>>]
    /\ handlers = <<>>
    /\ loggers = {}
    /\ logged = {}

\* ModeloManager.__init__: the base directories, no directory ejercicios yet
InitEjerciciosIdle ==
    /\ ej_dirs = {}
    /\ ej_metadata = EmptyFiles
    /\ ej_modelos = EmptyFiles
    /\ ej_resultados = EmptyFiles
    /\ epc = [p \in Procs |-> "idle"]
    /\ eloc = [p \in Procs |-> [c |-> NoLlamada, status |-> ""]]
    /\ ecalls = 0
    /\ guardados = {}
    /\ recreados = {}

\* ModeloBase.__init__ and ModeloH2O.__init__: esta_entrenado False, no modelo
ModeloNuevo == CHOOSE m \in Modelos : ~m.esta_entrenado

InitModeloH2O == modelo_h2o = ModeloNuevo

Init ==
    /\ InitRegistry /\ InitProcs /\ InitFetcherIdle /\ InitDriftIdle /\ InitLogIdle
    /\ InitEjerciciosIdle
    /\ InitModeloH2O

(***************************************************************************)
(* Spec: whole calls of one client.                                        *)
(***************************************************************************)
Tick ==
    /\ now < MaxNow
    /\ now' = now + 1
    /\ UNCHANGED <<dirs, files, metricas, last, issued, registered, ncalls, appended>>
    /\ UNCHANGED <<concVars, fetchVars, extVars>>

\* the outcome of a registrar_modelo call, as the caller and the observer see it
Registrar(c) ==
    LET r == RunCall(c, "start", StoreNow, now) IN
    /\ ncalls < MaxCalls
    /\ ncalls' = ncalls + 1
    /\ dirs' = r.st.dirs
    /\ files' = r.st.files
    /\ metricas' = r.st.metricas
    /\ issued' = IF r.c.id = NoId THEN issued ELSE issued \cup {r.c.id}
    /\ registered' = IF r.status = "ok" THEN registered \cup {r.c.id} ELSE registered
    /\ last' = [op |-> "registrar", impl |-> c.impl, id |-> r.c.id,
                modelo |-> c.modelo, status |-> r.status,
                fresh |-> r.c.id \notin issued, dup |-> r.c.id \in registered]
    /\ UNCHANGED <<now, appended>>
    /\ UNCHANGED <<concVars, fetchVars, extVars>>

\* the model object registered when the environment injects a fault
ModeloA == CHOOSE m \in Modelos : m.esta_entrenado /\ m.data = 1

RegistrarModeloMlops ==
    \E m \in Modelos, md \in Metadatas, fault \in Faults \ {"metricas_dump"} :
        /\ fault # "none" => m = ModeloA
        /\ Registrar(Call("mlops", m, md, md.dataset, md.version, fault))

RegistrarModeloManager ==
    \E m \in Modelos, dataset \in Datasets, version \in Versiones, fault \in Faults :
        /\ fault # "none" => m = ModeloA
        /\ Registrar(Call("manager", m, [none |-> TRUE], dataset, version, fault))

\* ids a caller can name: those registrar_modelo returned and one it never did
CallableIds == registered \cup {UnknownId}

\* cargar_modelo reads: its outcome is CargarModelo of the store as it is
CargarModeloCall ==
    \E impl \in Impls, id \in CallableIds :
        /\ CargarModelo(impl, StoreNow, id).status # ""
        /\ UNCHANGED vars

GuardarMetricas ==
    \E id \in CallableIds, v \in MetricasValues :
        /\ ncalls < MaxCalls
        /\ ncalls' = ncalls + 1
        /\ metricas' = GuardarMetricasWrite(metricas, id, v, now)
        /\ appended' = Append(appended,
                              DatosMetricas(id, GenerarMetricasId(id, now), now, v))
        /\ last' = [op |-> "guardar_metricas", impl |-> "mlops", id |-> id,
                    modelo |-> NoModelo, status |-> GuardarMetricasStatus,
                    fresh |-> TRUE, dup |-> FALSE]
        /\ UNCHANGED <<now, dirs, files, issued, registered>>
        /\ UNCHANGED <<concVars, fetchVars, extVars>>

\* obtener_metricas_modelo reads: its outcome is ObtenerMetricasModelo of the
\* metrics directory as it is, in the order the listing came
ObtenerMetricasModeloCall ==
    \E id \in CallableIds, orden \in Listdir(metricas) :
        /\ Len(ObtenerMetricasModelo(metricas, id, orden)) <= Len(orden)
        /\ UNCHANGED vars

MonitorearModeloCall ==
    \E id \in CallableIds :
        LET r == MonitorearModelo(StoreNow, id, now) IN
        /\ ncalls < MaxCalls
        /\ ncalls' = ncalls + 1
        /\ metricas' = r.metricas
        /\ last' = [op |-> "monitorear", impl |-> "mlops", id |-> id,
                    modelo |-> NoModelo, status |-> r.status,
                    fresh |-> TRUE, dup |-> FALSE]
        /\ UNCHANGED <<now, dirs, files, issued, registered, appended>>
        /\ UNCHANGED <<concVars, fetchVars, extVars>>

\* listar_modelos reads: its outcome is ListarModelos of the store as it is
ListarModelosCall ==
    \E orden \in Orders(ModeloIds(StoreNow)) :
        /\ ListarModelos(StoreNow, orden).status # ""
        /\ UNCHANGED vars

\* detectar_drift reads: its outcome is DetectarDrift of the store as it is,
\* for whatever new data it is given
DetectarDriftCall ==
    \E id \in CallableIds :
        /\ \A actual \in Distribuciones :
               DetectarDrift(StoreNow, id, actual).status # ""
        /\ UNCHANGED vars

Next ==
    \/ Tick
    \/ RegistrarModeloMlops
    \/ RegistrarModeloManager
    \/ CargarModeloCall
    \/ GuardarMetricas
    \/ ObtenerMetricasModeloCall
    \/ MonitorearModeloCall
    \/ ListarModelosCall
    \/ DetectarDriftCall

Spec == Init /\ [][Next]_vars

(***************************************************************************)
(* Properties of the registry under Spec.                                  *)
(***************************************************************************)
\* the metadata document the registration of `id` by `impl` stored, if any
StoredMetadata(impl, id) ==
    LET p == Path(id, "", IF impl = "mlops" THEN MetadataNameMlops
                                            ELSE MetadataNameManager)
    IN  IF Exists(files, p) THEN files[p] ELSE Partial

\* C1: right after a registrar_modelo call returned an id, cargar_modelo of the
\* same implementation with that id succeeds and gives back the registered
\* blob and the metadata document stored by the registration.
C1_RegisterLoadRoundTrip ==
    (last.op = "registrar" /\ last.status = "ok") =>
        LET r == CargarModelo(last.impl, StoreNow, last.id)
        IN  /\ r.status = "ok"
            /\ r.blob = Blob(last.modelo)
            /\ r.metadata = StoredMetadata(last.impl, last.id)

\* C2: a registrar_modelo call that resolves to an id already registered ends
\* in a duplicate-id error and changes no directory, artifact file or metrics
\* file.
C2_DuplicateRegistrationRejected ==
    [][(ncalls' = ncalls + 1 /\ last'.op = "registrar" /\ last'.dup) =>
          /\ last'.status = "DuplicateId"
          /\ dirs' = dirs
          /\ files' = files
          /\ metricas' = metricas]_vars

\* C3: every id handed out by _generar_modelo_id differs from all ids handed
\* out before, also for the same kind, dataset and version in one clock second.
C3_DistinctIdPerRegistration ==
    (last.op = "registrar" /\ last.id # NoId) => last.fresh

\* snapshots handed to guardar_metricas for modelo_id, in call order
AppendedFor(modelo_id) == SelectSeq(appended, LAMBDA d : d.modelo_id = modelo_id)

\* ids named in a guardar_metricas call so far
AppendedIds == {appended[i].modelo_id : i \in 1..Len(appended)}

\* C5: for every id of mlops.py, whatever the order of the directory listing,
\* obtener_metricas_modelo returns exactly the snapshots handed to
\* guardar_metricas for that id, in call order.
C5_MetricsHistoryExact ==
    \A id \in {i \in AppendedIds \cup CallableIds : i.fmt = "mlops"} :
        \A orden \in Listdir(metricas) :
            ObtenerMetricasModelo(metricas, id, orden) = AppendedFor(id)

\* C9: after a registrar_modelo call that failed once its id was generated and
\* its directory created, no directory of that id exists.
C9_RollbackOnFailure ==
    (last.op = "registrar" /\ last.status # "ok" /\ last.id # NoId) =>
        \A d \in dirs : d.id # last.id

\* C12: cargar_modelo of an id whose directory or metadata.json is missing
\* raises FileNotFoundError; of an id whose metadata.json is there and does not
\* parse it raises JSONDecodeError, another error than the first.
C12_DistinctLoadErrors ==
    \A impl \in Impls, id \in issued \cup {UnknownId} :
        LET r == CargarModelo(impl, StoreNow, id)
            m == Path(id, "", "metadata.json")
        IN  /\ (Dir(id, "") \notin dirs \/ ~Exists(files, m)) =>
                   r.status = "FileNotFoundError"
            /\ (Dir(id, "") \in dirs /\ Exists(files, m) /\ files[m] = Partial) =>
                   r.status = "JSONDecodeError" /\ r.status # "FileNotFoundError"

\* a registered id whose metadata.json a later failed save left truncated, next
\* to an id that has no directory: the two loads end in different errors
C12_Witness ==
    \E id \in registered :
        /\ Exists(files, Path(id, "", "metadata.json"))
        /\ files[Path(id, "", "metadata.json")] = Partial
        /\ \A impl \in Impls :
               /\ CargarModelo(impl, StoreNow, id).status = "JSONDecodeError"
               /\ CargarModelo(impl, StoreNow, UnknownId).status = "FileNotFoundError"

\* the metadata.json of an id is missing, does not parse or holds no reference
SinReferencia(id) ==
    LET m == Path(id, "", "metadata.json") IN
    \/ ~Exists(files, m)
    \/ files[m] = Partial
    \/ "distribucion_features" \notin DOMAIN files[m]

\* C13: detectar_drift of a registered id without a readable reference
\* distribution ends in an error, and so does obtener_metricas_modelo of an id
\* one of whose snapshot files does not parse; neither returns an empty result.
C13_NoMaskedFailure ==
    \A id \in registered :
        /\ SinReferencia(id) =>
               \A actual \in Distribuciones :
                   DetectarDrift(StoreNow, id, actual).status # "ok"
        /\ (\E n \in DOMAIN metricas :
                StartsWithMetricas(n, id) /\ metricas[n] = Partial) =>
               ObtenerMetricasModeloStatus # "ok"

\* C14: a guardar_metricas or monitorear_modelo call that names an id no
\* registration returned ends in an unknown-artifact error and leaves the
\* metrics directory as it was.
C14_UnknownArtifactRejected ==
    [][(/\ ncalls' = ncalls + 1
        /\ last'.op \in {"guardar_metricas", "monitorear"}
        /\ last'.id \notin registered) =>
          /\ last'.status = "UnknownArtifact"
          /\ metricas' = metricas]_vars

\* C17: after one registration and then one monitorear_modelo call for the
\* registered id, the monitoring has succeeded and obtener_metricas_modelo
\* returns, whatever the order of the directory listing, exactly the training
\* snapshot followed by the monitoring snapshot.
C17_TrainingThenMonitoring ==
    (ncalls = 2 /\ last.op = "monitorear" /\ last.id \in registered) =>
        /\ last.status = "ok"
        /\ \A orden \in Listdir(metricas) :
               LET h == ObtenerMetricasModelo(metricas, last.id, orden) IN
               /\ Len(h) = 2
               /\ h[1].k = "metricas"
               /\ h[2].k = "monitoreo"

\* the ids of the records a listar_modelos call returned
IdsListados(r) == {r.modelos[i].id : i \in 1..Len(r.modelos)}

\* C18: whatever the order of the directory listing, listar_modelos succeeds,
\* its records name every id a registrar_modelo call of either implementation
\* returned, no id twice, and two calls on the same store give the same records.
C18_ListarModelosComplete ==
    \A o1 \in Orders(ModeloIds(StoreNow)), o2 \in Orders(ModeloIds(StoreNow)) :
        LET r1 == ListarModelos(StoreNow, o1)
            r2 == ListarModelos(StoreNow, o2)
        IN  /\ r1.status = "ok"
            /\ registered \subseteq IdsListados(r1)
            /\ Cardinality(IdsListados(r1)) = Len(r1.modelos)
            /\ {r1.modelos[i] : i \in 1..Len(r1.modelos)}
                   = {r2.modelos[i] : i \in 1..Len(r2.modelos)}

\* C28: a guardar_metricas call either returns with the snapshot file of its
\* metrics id persisted, or raises with the metrics directory as it was before
\* the call.
C28_GuardarMetricasAllOrNothing ==
    [][(last'.op = "guardar_metricas" /\ ncalls' = ncalls + 1) =>
          \/ /\ last'.status = "ok"
             /\ Exists(metricas', GenerarMetricasId(last'.id, now))
             /\ metricas'[GenerarMetricasId(last'.id, now)] # Partial
          \/ /\ last'.status # "ok"
             /\ metricas' = metricas]_vars

(***************************************************************************)
(* SpecConc: each client makes one registrar_modelo call; the calls of the *)
(* two clients interleave between file-system operations, and a client may *)
(* be killed in the middle of its save.                                    *)
(***************************************************************************)
Running(p) == pc[p] \notin {"idle", "done", "crashed"}

\* the observers' view of a call that ended
Ended(p, r) ==
    /\ registered' = IF r.status = "ok" THEN registered \cup {r.c.id} ELSE registered
    /\ last' = [op |-> "registrar", impl |-> r.c.impl, id |-> r.c.id,
                modelo |-> r.c.modelo, status |-> r.status,
                fresh |-> loc'[p].fresh, dup |-> r.c.id \in registered]

\* the client enters registrar_modelo and runs it up to the generated id
CStart(p) ==
    \E impl \in Impls, m \in Modelos, md \in Metadatas,
       dataset \in Datasets, version \in Versiones :
        LET c == IF impl = "mlops"
                 THEN Call(impl, m, md, md.dataset, md.version, "none")
                 ELSE Call(impl, m, [none |-> TRUE], dataset, version, "none")
            r == Step(c, "start", StoreNow, now)
            others == {q \in Procs \ {p} : Running(q)}
        IN  /\ pc[p] = "idle"
            /\ pc' = [pc EXCEPT ![p] = r.pc]
            /\ loc' = [loc EXCEPT ![p] = [c |-> r.c, status |-> r.status,
                                          fresh |-> r.c.id \notin issued]]
            /\ conc' = [q \in Procs |->
                          IF q = p THEN others
                          ELSE IF q \in others THEN conc[q] \cup {p} ELSE conc[q]]
            /\ issued' = IF r.c.id = NoId THEN issued ELSE issued \cup {r.c.id}
            /\ IF r.pc = "done" THEN Ended(p, r) ELSE UNCHANGED <<registered, last>>
            /\ UNCHANGED <<now, dirs, files, metricas, ncalls, appended>>
            /\ UNCHANGED <<fetchVars, extVars>>

\* the next file-system operation of the client's call
CStep(p) ==
    LET r == Step(loc[p].c, pc[p], StoreNow, now) IN
    /\ Running(p)
    /\ dirs' = r.st.dirs
    /\ files' = r.st.files
    /\ metricas' = r.st.metricas
    /\ pc' = [pc EXCEPT ![p] = r.pc]
    /\ loc' = [loc EXCEPT ![p] = [c |-> r.c, status |-> r.status,
                                  fresh |-> loc[p].fresh]]
    /\ IF r.pc = "done" THEN Ended(p, r) ELSE UNCHANGED <<registered, last>>
    /\ UNCHANGED <<now, issued, ncalls, appended, conc>>
    /\ UNCHANGED <<fetchVars, extVars>>

\* positions of a save before its final step, the write of the metadata
BeforeFinalStep == {"makedirs", "save_begin", "save_end", "meta_open", "meta_dump"}

\* the client's process is killed: its call never continues
Crash(p) ==
    /\ pc[p] \in BeforeFinalStep
    /\ pc' = [pc EXCEPT ![p] = "crashed"]
    /\ UNCHANGED <<regVars, loc, conc, fetchVars, extVars>>

\* a reader between two file-system operations of the clients: cargar_modelo
\* of an id in use, and listar_modelos
CLeer ==
    /\ \E p \in Procs : Running(p)
    /\ \E impl \in Impls, id \in issued :
           CargarModelo(impl, StoreNow, id).status # ""
    /\ \E orden \in Orders(ModeloIds(StoreNow)) :
           ListarModelos(StoreNow, orden).status # ""
    /\ UNCHANGED vars

NextConc ==
    \/ Tick
    \/ \E p \in Procs : CStart(p)
    \/ \E p \in Procs : CStep(p)
    \/ \E p \in Procs : Crash(p)
    \/ CLeer

SpecConc == Init /\ [][NextConc]_vars

\* C4: when a save was cut before its final step and no other call used the
\* id, loading the id fails with not-found and no file of the id is partial.
C4_CrashAtomicity ==
    \A p \in Procs :
        (pc[p] = "crashed" /\ \A q \in Procs \ {p} : loc[q].c.id # loc[p].c.id) =>
            /\ CargarModelo(loc[p].c.impl, StoreNow, loc[p].c.id).status
                   = "FileNotFoundError"
            /\ \A f \in DOMAIN files : f.id = loc[p].c.id => files[f] # Partial

\* what a finished call of client p stored, were it the only writer of its id
StoredBy(p) ==
    LET c == loc[p].c IN
    /\ Exists(files, RutaModelo(c))
    /\ files[RutaModelo(c)] = Blob(c.modelo)
    /\ Exists(files, RutaMetadata(c))
    /\ files[RutaMetadata(c)] = IF c.impl = "mlops"
                                THEN MetadataCompleta(c, RutaModelo(c))
                                ELSE MetadataManager(c.modelo, RutaModelo(c))

\* C10: of two overlapping registrar_modelo calls that resolved to the same id,
\* once both have ended at most one has returned the id, and blob and metadata
\* are those of the call that returned.
C10_ConcurrentRegistrarExclusive ==
    \A p, q \in Procs :
        (/\ p # q
         /\ q \in conc[p]
         /\ pc[p] = "done" /\ pc[q] = "done"
         /\ loc[p].c.id = loc[q].c.id /\ loc[p].c.id # NoId) =>
            /\ ~(loc[p].status = "ok" /\ loc[q].status = "ok")
            /\ loc[p].status = "ok" => StoredBy(p)

\* C11: while a save of an id is in progress, cargar_modelo of that id never
\* meets an empty or truncated metadata file or a blob that is not fully
\* written, and listar_modelos neither: every record it returns has a complete
\* blob.
C11_ReadIsolation ==
    \A p \in Procs :
        (Running(p) /\ loc[p].c.id # NoId) =>
            /\ \A impl \in Impls :
                   CargarModelo(impl, StoreNow, loc[p].c.id).status
                       \notin {"JSONDecodeError", "H2OError"}
            /\ \A orden \in Orders(ModeloIds(StoreNow)) :
                   LET r == ListarModelos(StoreNow, orden) IN
                   /\ r.status = "ok"
                   /\ \A i \in 1..Len(r.modelos) :
                          H2OLoadable(StoreNow, r.modelos[i].metadata.ruta_modelo)

(***************************************************************************)
(* SpecFetch: ModeloManagerIA.  The file at the canonical path             *)
(* models/ia/<modelo_base>.bin is [exists, bytes]; bytes is the sequence   *)
(* of chunks written so far.  A digest is the hashed bytes and the letter  *)
(* case of its hexadecimal text.                                           *)
(***************************************************************************)
Bytes == {1, 2}

\* contents of at most MaxChunks chunks
Contents == UNION {[1..n -> Bytes] : n \in 0..MaxChunks}

File(b) == [exists |-> TRUE, bytes |-> b]

\* hashlib.md5 over the chunks of the file, hexdigest(): lower-case text
Hexdigest(b) == [of |-> b, upper |-> FALSE]

\* the bytes the publisher released for each asset
Publicado == [a \in {"gpt4all-j", "orca-mini"} |->
                 IF a = "orca-mini" THEN <<1, 2>> ELSE <<2>>]

\* a table whose md5 entries are written in upper-case letters
MODELOS_DISPONIBLES_MAYUSCULAS ==
    [a \in DOMAIN Publicado |-> [md5 |-> [of |-> Publicado[a], upper |-> TRUE]]]

\* the table of assets: the md5 entry of each
MODELOS_DISPONIBLES ==
    [a \in DOMAIN Publicado |-> [md5 |-> Hexdigest(Publicado[a])]]

\* a hash check that only looks whether the file is there
VerificarHashSoloExiste(f, base) == f.exists

\* verificar_hash
VerificarHash(f, base) ==
    IF ~f.exists THEN FALSE
    ELSE Hexdigest(f.bytes) = MODELOS_DISPONIBLES[base].md5

InitFetch ==
    /\ InitRegistry
    /\ InitProcs
    /\ InitDriftIdle
    /\ InitLogIdle
    /\ InitEjerciciosIdle
    /\ InitModeloH2O
    /\ modelo_base \in DOMAIN MODELOS_DISPONIBLES
    /\ model_file \in {Absent} \cup {File(b) : b \in Contents}
    /\ fpc = "idle"
    /\ fcall = ""
    /\ fres = ""
    /\ descargas = 0
    /\ stream = <<>>
    /\ previo = model_file

\* the call ends: what the caller gets
FDone(call, res) ==
    /\ fpc' = "done"
    /\ fres' = IF call = "get_model_path"
               THEN IF res = "True" THEN "path"
                    ELSE IF res = "False" THEN "Exception" ELSE res
               ELSE res

\* verificar_modelo up to its first file-system write: the existence test and,
\* for a file that is there, verificar_hash
VerificarModelo ==
    \E call \in {"verificar_modelo", "get_model_path"} :
        /\ fpc = "idle"
        /\ fcall' = call
        /\ descargas' = 0
        /\ IF ~model_file.exists \/ ~VerificarHash(model_file, modelo_base)
           THEN fpc' = "descargar" /\ fres' = ""
           ELSE FDone(call, "True")
        /\ previo' = model_file
        /\ UNCHANGED <<modelo_base, model_file, stream>>
        /\ UNCHANGED <<regVars, concVars, extVars>>

\* the except clause of descargar_modelo: remove the file and re-raise
DescargarFalla ==
    /\ model_file' = Absent
    /\ stream' = <<>>
    /\ FDone(fcall, "RequestException")

\* descargar_modelo: requests.get(url, stream=True) and raise_for_status()
DescargarGet ==
    /\ fpc = "descargar"
    /\ descargas' = descargas + 1
    /\ UNCHANGED <<modelo_base, fcall, previo>>
    /\ \/ \E r \in Contents :
            /\ stream' = r
            /\ fpc' = "open"
            /\ UNCHANGED <<model_file, fres>>
       \/ DescargarFalla
    /\ UNCHANGED <<regVars, concVars, extVars>>

\* descargar_modelo: open(self.model_path, 'wb')
DescargarOpen ==
    /\ fpc = "open"
    /\ model_file' = File(<<>>)
    /\ fpc' = "chunks"
    /\ UNCHANGED <<modelo_base, fcall, fres, descargas, stream, previo>>
    /\ UNCHANGED <<regVars, concVars, extVars>>

\* descargar_modelo: one round of the iter_content loop
DescargarChunk ==
    /\ fpc = "chunks"
    /\ UNCHANGED <<modelo_base, fcall, descargas, previo>>
    /\ \/ /\ stream # <<>>
          /\ model_file' = File(Append(model_file.bytes, Head(stream)))
          /\ stream' = Tail(stream)
          /\ UNCHANGED <<fpc, fres>>
       \/ /\ stream # <<>>
          /\ DescargarFalla
       \/ /\ stream = <<>>
          /\ fpc' = "verify"
          /\ UNCHANGED <<model_file, stream, fres>>
    /\ UNCHANGED <<regVars, concVars, extVars>>

\* verificar_modelo after the download: return self.verificar_hash()
VerificarTrasDescarga ==
    /\ fpc = "verify"
    /\ FDone(fcall, IF VerificarHash(model_file, modelo_base) THEN "True" ELSE "False")
    /\ UNCHANGED <<modelo_base, model_file, fcall, descargas, stream, previo>>
    /\ UNCHANGED <<regVars, concVars, extVars>>

\* the caller takes the outcome; the manager is ready for its next call
FReturn ==
    /\ fpc = "done"
    /\ fpc' = "idle"
    /\ fres' = ""
    /\ fcall' = ""
    /\ descargas' = 0
    /\ UNCHANGED <<modelo_base, model_file, stream, previo>>
    /\ UNCHANGED <<regVars, concVars, extVars>>

NextFetch ==
    \/ VerificarModelo
    \/ DescargarGet
    \/ DescargarOpen
    \/ DescargarChunk
    \/ VerificarTrasDescarga
    \/ FReturn

SpecFetch == InitFetch /\ [][NextFetch]_vars

\* the file at the canonical path is there and hashes to the md5 of the asset
ChecksumOk ==
    /\ model_file.exists
    /\ Hexdigest(model_file.bytes) = MODELOS_DISPONIBLES[modelo_base].md5

\* C6: when verificar_modelo returns True or get_model_path returns the path,
\* the file at the canonical path hashes to the expected md5 of the asset.
C6_NeverUnverifiedContent ==
    (fpc = "done" /\ fres \in {"True", "path"}) => ChecksumOk

\* get_model_path returned the path of a file it downloaded in place of a
\* prior local file
C6_Witness ==
    /\ fpc = "done"
    /\ fcall = "get_model_path"
    /\ fres = "path"
    /\ descargas = 1

\* C7: while descargar_modelo writes, after it has written and when the call
\* has ended, a file at the canonical path hashes to the expected md5.
C7_CanonicalPathInvariant ==
    (fpc \in {"chunks", "verify", "done"} /\ model_file.exists) => ChecksumOk

\* C8: when verificar_modelo ends without success (False or an exception, and
\* so get_model_path raises), no file is at the canonical path.
C8_FailedFetchLeavesAbsent ==
    (fpc = "done" /\ fres \notin {"True", "path"}) => ~model_file.exists

\* C21: a call that ends because the checksum does not match has downloaded
\* the asset at least twice: the mismatching download was retried before the
\* call gave up.
C21_RetryBeforeGivingUp ==
    (fpc = "done" /\ fres \in {"False", "Exception"}) => descargas >= 2

\* C22: verificar_modelo on a file that is there: when the checksum matches the
\* call ends with True (the path), starts no download and leaves the file as it
\* was; when it does not match the file is deleted before the download starts.
C22_ExistingFileCheckedFirst ==
    [][(fpc = "idle" /\ fpc' # "idle" /\ model_file.exists) =>
          IF VerificarHash(model_file, modelo_base)
          THEN /\ fpc' = "done"
               /\ fres' \in {"True", "path"}
               /\ descargas' = 0
               /\ model_file' = model_file
          ELSE /\ fpc' = "descargar"
               /\ ~model_file'.exists]_vars

\* C23: while descargar_modelo streams the response the canonical path holds
\* what it held when the call began, and after a download that raised it holds
\* that again.
C23_AbortLeavesStateUnchanged ==
    /\ fpc \in {"open", "chunks"} => model_file = previo
    /\ (fpc = "done" /\ fres = "RequestException") => model_file = previo

InitDrift ==
    /\ InitRegistry
    /\ InitProcs
    /\ InitFetcherIdle
    /\ InitLogIdle
    /\ InitEjerciciosIdle
    /\ InitModeloH2O
    /\ distribucion_original \in Distribuciones
    /\ distribucion_actual \in Distribuciones
    /\ diferencias = NoCalculado

\* detectar_drift from the reference on: the loop and return diferencias
DetectarDriftCalcular ==
    /\ diferencias = NoCalculado
    /\ diferencias' = [k |-> "diferencias",
                       v |-> CalcularDiferencias(distribucion_original,
                                                 distribucion_actual)]
    /\ UNCHANGED <<distribucion_original, distribucion_actual>>
    /\ UNCHANGED <<regVars, concVars, fetchVars, logVars, otrosVars>>

NextDrift == DetectarDriftCalcular

SpecDrift == InitDrift /\ [][NextDrift]_vars

\* C15: for new data with exactly the reference distribution the result has,
\* for every reference feature, zero diff_mean and zero diff_std, and it has
\* an entry drift_detected that is false.
C15_SelfDriftIsNull ==
    (diferencias.k = "diferencias" /\ distribucion_actual = distribucion_original) =>
        /\ \A f \in DOMAIN distribucion_original :
               /\ f \in DOMAIN diferencias.v
               /\ diferencias.v[f] = [diff_mean |-> 0, diff_std |-> 0]
        /\ "drift_detected" \in DOMAIN diferencias.v
        /\ diferencias.v["drift_detected"] = FALSE

\* C16: every feature of the reference and every feature of the new data has
\* an entry in the result, also when the other side lacks it.
C16_MissingFeatureReported ==
    diferencias.k = "diferencias" =>
        \A f \in DOMAIN distribucion_original \cup DOMAIN distribucion_actual :
            f \in DOMAIN diferencias.v

\* C26: for every feature of both the reference and the new data the result
\* has diff_mean and diff_std equal to the absolute difference of the two means
\* and of the two standard deviations: neither is negative, each is the
\* difference taken one way or the other, and exchanging reference and new data
\* gives the same entry.  Means 100 and 150 with equal std give 50 and 0.
C26_AbsoluteDifferences ==
    /\ diferencias.k = "diferencias" =>
          \A f \in DOMAIN distribucion_original \cap DOMAIN distribucion_actual :
              LET o == distribucion_original[f]
                  a == distribucion_actual[f]
                  d == diferencias.v[f]
              IN  /\ f \in DOMAIN diferencias.v
                  /\ d.diff_mean >= 0 /\ d.diff_std >= 0
                  /\ d.diff_mean \in {o.mean - a.mean, a.mean - o.mean}
                  /\ d.diff_std \in {o.std - a.std, a.std - o.std}
                  /\ d = CalcularDiferencias(distribucion_actual,
                                             distribucion_original)[f]
    /\ CalcularDiferencias([price |-> [mean |-> 100, std |-> 20]],
                           [price |-> [mean |-> 150, std |-> 20]])
           = [price |-> [diff_mean |-> 50, diff_std |-> 0]]

\* a feature of both sides whose means differ (the new mean is the larger) and
\* whose standard deviations are equal
C26_Witness ==
    /\ diferencias.k = "diferencias"
    /\ \E f \in DOMAIN distribucion_original \cap DOMAIN distribucion_actual :
           /\ distribucion_original[f].mean < distribucion_actual[f].mean
           /\ distribucion_original[f].std = distribucion_actual[f].std
           /\ diferencias.v[f].diff_mean > 0
           /\ diferencias.v[f].diff_std = 0

(***************************************************************************)
(* SpecLog: src/src/logger.py.  logging.getLogger(nombre) is one object    *)
(* per name for the whole process; every Logger(nombre) adds a file        *)
(* handler to it.  A file name under logs is [nombre, fmt, ts]: the name   *)
(* of the logger and the clock formatted with fmt.  A line is the record   *)
(* the formatter prints: name, levelname and message.                      *)
(***************************************************************************)
Nombres == {"test_logger1", "test_logger2"}

Niveles == {"DEBUG", "INFO", "WARNING", "ERROR"}

\* the numeric levels of the logging module
LevelNo == [n \in Niveles |->
               CASE n = "DEBUG" -> 10 [] n = "INFO" -> 20
                 [] n = "WARNING" -> 30 [] n = "ERROR" -> 40]

\* a threshold that lets every record through
RegistraTodo(nivel, umbral) == TRUE

\* setLevel(umbral) of a logger or a handler: a record of level nivel passes
Registra(nivel, umbral) == LevelNo[nivel] >= LevelNo[umbral]

\* datetime.now().strftime("%Y%m%d"): the clock truncated to days
Fecha(t) == Timestamp(t) \div SecondsPerDay

\* f"{nombre}_{timestamp}.log" with timestamp = strftime("%Y%m%d_%H%M%S")
LogFile(nombre, t) ==
    [nombre |-> nombre, fmt |-> "%Y%m%d_%H%M%S", ts |-> Timestamp(t)]

\* f"logs/{nombre}_{datetime.now().strftime('%Y%m%d')}.log"
LogFileFecha(nombre, t) ==
    [nombre |-> nombre, fmt |-> "%Y%m%d", ts |-> Fecha(t)]

\* the file handlers of logging.getLogger(nombre), in the order they were added
HandlersOf(nombre) == SelectSeq(handlers, LAMBDA h : h.nombre = nombre)

\* Logger.__init__
NuevoLogger ==
    \E nombre \in Nombres :
        LET log_file == LogFile(nombre, now) IN
        /\ Len(handlers) < MaxLoggers
        /\ logs_dir' = TRUE
        /\ log_files' = IF log_file \in DOMAIN log_files THEN log_files
                        ELSE (log_file :> <<>>) @@ log_files
        /\ handlers' = Append(handlers, [nombre |-> nombre, file |-> log_file,
                                         level |-> "INFO"])
        /\ loggers' = loggers \cup
                         {[nombre |-> nombre, log_file |-> log_file, created |-> now]}
        /\ UNCHANGED logged
        /\ UNCHANGED <<regVars, concVars, fetchVars, driftVars, otrosVars>>

\* file handlers of the logger `nombre` that write the record to file f
Emiten(nombre, nivel, f) ==
    SelectSeq(HandlersOf(nombre),
              LAMBDA h : h.file = f /\ Registra(nivel, h.level))

\* self.logger.<nivel>(texto) on the Logger object l: the logger's level is INFO
LogCall(l, nivel, texto) ==
    LET line == [name |-> l.nombre, levelname |-> nivel, message |-> texto] IN
    /\ Cardinality(logged) < MaxLogs
    /\ logged' = logged \cup {[logger |-> l, nivel |-> nivel,
                                mensaje |-> texto.mensaje]}
    /\ log_files' =
          IF Registra(nivel, "INFO")
          THEN [f \in DOMAIN log_files |->
                  log_files[f] \o [i \in 1..Len(Emiten(l.nombre, nivel, f)) |-> line]]
          ELSE log_files
    /\ UNCHANGED <<logs_dir, handlers, loggers>>
    /\ UNCHANGED <<regVars, concVars, fetchVars, driftVars, otrosVars>>

\* the text of the next message: each call logs a message of its own
Mensaje == Cardinality(logged) + 1

\* Logger.info: f"{mensaje} - {extra}" when extra is given
LogInfo ==
    \E l \in loggers, extra \in {"", "extra"} :
        LogCall(l, "INFO", [mensaje |-> Mensaje, extra |-> extra])

LogError ==
    \E l \in loggers : LogCall(l, "ERROR", [mensaje |-> Mensaje, extra |-> ""])

LogWarning ==
    \E l \in loggers : LogCall(l, "WARNING", [mensaje |-> Mensaje, extra |-> ""])

LogDebug ==
    \E l \in loggers : LogCall(l, "DEBUG", [mensaje |-> Mensaje, extra |-> ""])

NextLog ==
    \/ Tick
    \/ NuevoLogger
    \/ LogInfo
    \/ LogError
    \/ LogWarning
    \/ LogDebug

SpecLog == Init /\ [][NextLog]_vars

\* the lines of file f that carry the message of the logged call e
LineasDe(f, e) ==
    SelectSeq(log_files[f],
              LAMBDA ln : ln.message.mensaje = e.mensaje /\ ln.levelname = e.nivel)

C20_LogFilePerNameAndDay ==
    /\ \A l \in loggers :
           /\ logs_dir
           /\ LogFileFecha(l.nombre, l.created) \in DOMAIN log_files
           /\ \A e \in logged :
                  (e.logger = l /\ e.nivel # "DEBUG") =>
                      LineasDe(LogFileFecha(l.nombre, l.created), e) # <<>>
    /\ \A l1 \in loggers, l2 \in loggers :
           l1.nombre # l2.nombre => l1.log_file # l2.log_file

(***************************************************************************)
(* SpecEj: the clients of one ModeloManager call crear_ejercicio_automl,   *)
(* guardar_modelo and guardar_resultados; the calls interleave between     *)
(* file-system operations.                                                 *)
(***************************************************************************)
EjStoreNow == EjStore(ej_dirs, ej_metadata, ej_modelos, ej_resultados)

EjRunning(p) == epc[p] \notin {"idle", "done"}

\* ids a caller can name: those of created exercises and one never created
EjerciciosLlamables == ej_dirs \cup {EjercicioDesconocido}

\* what a call of guardar_modelo or guardar_resultados that returned has saved
Guardado(c) ==
    [ej |-> c.ej, op |-> c.op, nombre |-> c.nombre, archivo |-> c.archivo]

\* the client enters the call, which reads the clock
EjBegin(p, c) ==
    LET r == EjStep(c, "start", EjStoreNow, now) IN
    /\ epc[p] \in {"idle", "done"}
    /\ ecalls < MaxCalls
    /\ ecalls' = ecalls + 1
    /\ epc' = [epc EXCEPT ![p] = r.pc]
    /\ eloc' = [eloc EXCEPT ![p] = [c |-> r.c, status |-> r.status]]
    /\ recreados' =
           IF /\ c.op = "crear_ejercicio_automl"
              /\ \/ r.c.ej \in ej_dirs
                 \/ \E q \in Procs : /\ eloc[q].c.op = "crear_ejercicio_automl"
                                     /\ eloc[q].c.ej = r.c.ej
           THEN recreados \cup {r.c.ej}
           ELSE recreados
    /\ UNCHANGED <<ej_dirs, ej_metadata, ej_modelos, ej_resultados, guardados>>
    /\ UNCHANGED <<regVars, concVars, fetchVars, driftVars, logVars, h2oVars>>

CrearEjercicioAutoml(p) ==
    \E nombre_ejercicio \in NombresEjercicio :
        EjBegin(p, [NoLlamada EXCEPT !.op = "crear_ejercicio_automl",
                                     !.nombre_ejercicio = nombre_ejercicio])

GuardarModelo(p) ==
    \E ej \in EjerciciosLlamables, nombre \in NombresModelo :
        EjBegin(p, [NoLlamada EXCEPT !.op = "guardar_modelo", !.ej = ej,
                                     !.nombre = nombre, !.modelo = ModeloA])

GuardarResultados(p) ==
    \E ej \in EjerciciosLlamables, tipo \in TiposResultados :
        EjBegin(p, [NoLlamada EXCEPT !.op = "guardar_resultados", !.ej = ej,
                                     !.tipo = tipo])

\* the next file-system operation of the client's call
EjPaso(p) ==
    LET r == EjStep(eloc[p].c, epc[p], EjStoreNow, now) IN
    /\ EjRunning(p)
    /\ ej_dirs' = r.st.dirs
    /\ ej_metadata' = r.st.metadata
    /\ ej_modelos' = r.st.modelos
    /\ ej_resultados' = r.st.resultados
    /\ epc' = [epc EXCEPT ![p] = r.pc]
    /\ eloc' = [eloc EXCEPT ![p] = [c |-> r.c, status |-> r.status]]
    /\ guardados' = IF /\ r.pc = "done" /\ r.status = "ok"
                       /\ r.c.op \in {"guardar_modelo", "guardar_resultados"}
                    THEN guardados \cup {Guardado(r.c)}
                    ELSE guardados
    /\ UNCHANGED <<ecalls, recreados>>
    /\ UNCHANGED <<regVars, concVars, fetchVars, driftVars, logVars, h2oVars>>

NextEj ==
    \/ Tick
    \/ \E p \in Procs : CrearEjercicioAutoml(p)
    \/ \E p \in Procs : GuardarModelo(p)
    \/ \E p \in Procs : GuardarResultados(p)
    \/ \E p \in Procs : EjPaso(p)

SpecEj == Init /\ [][NextEj]_vars

\* whether the metadata document md lists what g says was saved
Lista(md, g) ==
    /\ md # Partial
    /\ g.op = "guardar_modelo" =>
           \E i \in 1..Len(md.modelos) : md.modelos[i].nombre = g.nombre
    /\ g.op = "guardar_resultados" =>
           /\ g.archivo.tipo \in DOMAIN md.listas
           /\ \E i \in 1..Len(md.listas[g.archivo.tipo]) :
                  md.listas[g.archivo.tipo][i] = g.archivo

\* C29: once no call is in progress, the metadata.json of an exercise that was
\* created once lists every model and every result file that a guardar_modelo
\* or guardar_resultados call on it returned from.
C29_NoLostUpdate ==
    (\A p \in Procs : ~EjRunning(p)) =>
        \A g \in guardados :
            g.ej \notin recreados =>
                /\ Exists(ej_metadata, g.ej)
                /\ Lista(ej_metadata[g.ej], g)

\* the names of the models the metadata.json of exercise ej records
ModelosRegistrados(md, ej) ==
    IF Exists(md, ej) /\ md[ej] # Partial
    THEN {md[ej].modelos[i].nombre : i \in 1..Len(md[ej].modelos)}
    ELSE {}

\* C30: no step of a crear_ejercicio_automl call removes a model from the
\* models an exercise's metadata records.
C30_CrearKeepsExercises ==
    [][\A p \in Procs :
           (eloc'[p].c.op = "crear_ejercicio_automl" /\ epc'[p] # epc[p]) =>
               \A ej \in DOMAIN ej_metadata :
                   ModelosRegistrados(ej_metadata, ej)
                       \subseteq ModelosRegistrados(ej_metadata', ej)]_vars

(***************************************************************************)
(* SpecSave: a single client, one file-system operation at a time, saves   *)
(* through each of the save paths: registrar_modelo of mlops.py,           *)
(* registrar_modelo of mlops_manager.py with ModeloH2O.guardar, and the    *)
(* calls of ModeloManager.                                                 *)
(***************************************************************************)
Cliente == CHOOSE p \in Procs : \A q \in Procs : p <= q

NextSave ==
    \/ Tick
    \/ CStart(Cliente)
    \/ CStep(Cliente)
    \/ CrearEjercicioAutoml(Cliente)
    \/ GuardarModelo(Cliente)
    \/ GuardarResultados(Cliente)
    \/ EjPaso(Cliente)

SpecSave == Init /\ [][NextSave]_vars

\* the metadata documents of registrar_modelo and ModeloH2O.guardar
EsMetadata(doc) == doc.k \in {"metadata", "metadata_completa"}

\* the blob h2o.save_model put under an exercise's ruta_modelo is complete
BlobCompleto(ruta) ==
    \E f \in DOMAIN ej_modelos :
        /\ f.ej = ruta.ej
        /\ f.nombre = ruta.nombre
        /\ ej_modelos[f] # Partial

\* C25: in every state, between any two file-system operations of the save
\* paths, a metadata document that is written refers to a blob that is
\* completely written: the ruta_modelo of every metadata file of the registry,
\* and the ruta of every model entry of every exercise's metadata.json.
C25_MetadataAfterBlob ==
    /\ \A f \in DOMAIN files :
           EsMetadata(files[f]) => H2OLoadable(StoreNow, files[f].ruta_modelo)
    /\ \A ej \in DOMAIN ej_metadata :
           ej_metadata[ej] # Partial =>
               \A i \in 1..Len(ej_metadata[ej].modelos) :
                   BlobCompleto(ej_metadata[ej].modelos[i].ruta)

\* ModeloH2O.guardar has written its metadata.json and guardar_modelo has
\* recorded a model in an exercise
C25_Witness ==
    /\ \E f \in DOMAIN files : files[f].k = "metadata"
    /\ \E ej \in DOMAIN ej_metadata :
           /\ ej_metadata[ej] # Partial
           /\ Len(ej_metadata[ej].modelos) > 0

(***************************************************************************)
(* SpecH2O: one ModeloH2O instance; its caller trains, loads, predicts,    *)
(* evaluates and saves it, and registers it with the MLOpsManager of       *)
(* mlops_manager.py, one whole call at a time.                             *)
(***************************************************************************)
\* a call that is not registrar_modelo ends: what the caller and the observer see
H2ODone(op, status) ==
    /\ ncalls < MaxCalls
    /\ ncalls' = ncalls + 1
    /\ last' = [op |-> op, impl |-> "h2o", id |-> NoId, modelo |-> modelo_h2o',
                status |-> status, fresh |-> TRUE, dup |-> FALSE]
    /\ UNCHANGED <<now, issued, registered, appended>>
    /\ UNCHANGED <<concVars, fetchVars, driftVars, logVars, ejVars>>

\* directories a caller can name for guardar and cargar
Rutas == ModeloIds(StoreNow) \cup {RutaDirecta}

EntrenarCall ==
    \E m \in {x \in Modelos : x.esta_entrenado}, resultado \in ResultadosEntrenar :
        LET r == Entrenar(modelo_h2o, m, resultado) IN
        /\ modelo_h2o' = r.o
        /\ H2ODone("entrenar", r.status)
        /\ UNCHANGED <<dirs, files, metricas>>

CargarCall ==
    \E id \in Rutas :
        LET r == Cargar(modelo_h2o, StoreNow, id) IN
        /\ modelo_h2o' = r.o
        /\ H2ODone("cargar", r.status)
        /\ UNCHANGED <<dirs, files, metricas>>

PredecirCall ==
    \E valido \in BOOLEAN :
        /\ modelo_h2o' = modelo_h2o
        /\ H2ODone("predecir", Predecir(modelo_h2o, valido))
        /\ UNCHANGED <<dirs, files, metricas>>

EvaluarCall ==
    \E falla \in BOOLEAN :
        /\ modelo_h2o' = modelo_h2o
        /\ H2ODone("evaluar", Evaluar(modelo_h2o, falla))
        /\ UNCHANGED <<dirs, files, metricas>>

GuardarCall ==
    \E id \in Rutas :
        LET r == Guardar(modelo_h2o, StoreNow, id, now) IN
        /\ modelo_h2o' = modelo_h2o
        /\ dirs' = r.st.dirs
        /\ files' = r.st.files
        /\ metricas' = r.st.metricas
        /\ H2ODone("guardar", r.status)

\* mlops_manager.registrar_modelo of the instance
RegistrarModeloH2O ==
    \E dataset \in Datasets, version \in Versiones :
        Registrar(Call("manager", modelo_h2o, [none |-> TRUE], dataset, version,
                       "none"))

NextH2O ==
    \/ Tick
    \/ EntrenarCall
    \/ CargarCall
    \/ PredecirCall
    \/ EvaluarCall
    \/ GuardarCall
    \/ RegistrarModeloH2O

SpecH2O == Init /\ [][NextH2O]_vars

\* the calls behind the trained-state gate
Controladas == {"predecir", "evaluar", "guardar", "registrar"}

\* C27: esta_entrenado is false after construction and becomes true only in an
\* entrenar or cargar call that returns; while it is false, predecir, evaluar,
\* guardar and registrar_modelo raise ValueError and leave every directory and
\* file as it was; an entrenar or cargar call that raises leaves the flag as
\* it was.
C27_TrainedStateGate ==
    /\ ~modelo_h2o.esta_entrenado
    /\ [][/\ (~modelo_h2o.esta_entrenado /\ modelo_h2o'.esta_entrenado) =>
                 /\ ncalls' = ncalls + 1
                 /\ last'.op \in {"entrenar", "cargar"}
                 /\ last'.status = "ok"
          /\ (/\ ~modelo_h2o.esta_entrenado
              /\ ncalls' = ncalls + 1
              /\ last'.op \in Controladas) =>
                 /\ last'.status = "ValueError"
                 /\ <<dirs, files, metricas>>' = <<dirs, files, metricas>>
          /\ (/\ ncalls' = ncalls + 1
              /\ last'.op \in {"entrenar", "cargar"}
              /\ last'.status # "ok") =>
                 modelo_h2o'.esta_entrenado = modelo_h2o.esta_entrenado]_vars

\* a gated call raised ValueError on an instance whose entrenar had assigned
\* self.modelo and then raised
C27_Witness ==
    /\ ~modelo_h2o.esta_entrenado
    /\ modelo_h2o.data # 0
    /\ last.op \in Controladas
    /\ last.status = "ValueError"

====
